---- MODULE Spec2Model ----
(***************************************************************************)
(* Model of budget_web_app.py: the SQLite ledger (projects, expenses), the *)
(* form handlers of BudgetHandler, import_rows / export_rows and the two   *)
(* Google Sheets handlers.                                                 *)
(*                                                                         *)
(* Text is a sequence of one-character strings, so that str.strip(),       *)
(* float() and the "%.2f" formatting are computed and not assumed.  Money  *)
(* is an integer number of thousandths (a REAL with at most three          *)
(* fractional digits); inf, nan and exponents are outside the inputs.      *)
(*                                                                         *)
(* Every request thread opens its own connection (get_conn).  A form       *)
(* handler runs one INSERT, so it is one step.  import_rows runs several   *)
(* statements on one connection inside "with conn": it is modelled         *)
(* statement by statement, its writes staying in imp.view until the block  *)
(* commits, or being dropped when it leaves by an exception.               *)
(***************************************************************************)
EXTENDS Integers, Sequences, FiniteSets, TLC

VARIABLES db, imp, resp

vars == <<db, imp, resp>>

\* ---------------------------------------------------------------- bounds
\* Largest number of expense rows the model lets the table hold.
MaxExpenses == 2

\* ------------------------------------------------------------------ text
Digits == <<"0", "1", "2", "3", "4", "5", "6", "7", "8", "9">>

IsDigit(c) == \E i \in 1..10 : Digits[i] = c

DigitVal(c) == (CHOOSE i \in 1..10 : Digits[i] = c) - 1

\* str.strip(): leading and trailing whitespace removed.
RECURSIVE LStrip(_)
LStrip(s) == IF s /= <<>> /\ Head(s) = " " THEN LStrip(Tail(s)) ELSE s

RECURSIVE RStrip(_)
RStrip(s) ==
    IF s /= <<>> /\ s[Len(s)] = " " THEN RStrip(SubSeq(s, 1, Len(s) - 1)) ELSE s

Strip(s) == RStrip(LStrip(s))

\* Python's (x or d): d when x is None or the empty string.
OrDefault(x, d) == IF x = <<>> THEN d ELSE x

\* date.today().isoformat(), one fixed date for the run.
Today == <<"d", "0">>

ImportedExpense == <<"i", "m", "p">>

\* ---------------------------------------------------------------- numbers
AllDigits(s) == \A i \in 1..Len(s) : IsDigit(s[i])

RECURSIVE DigitsVal(_)
DigitsVal(s) ==
    IF s = <<>> THEN 0 ELSE DigitsVal(SubSeq(s, 1, Len(s) - 1)) * 10 + DigitVal(s[Len(s)])

\* Thousandths per unit of the last of n fractional digits.
FracScale(n) == CASE n = 0 -> 1000 [] n = 1 -> 100 [] n = 2 -> 10 [] OTHER -> 1

\* Position of the decimal point in s, 0 when there is none.
DotAt(s) == IF \E i \in 1..Len(s) : s[i] = "." THEN CHOOSE i \in 1..Len(s) : s[i] = "." ELSE 0

\* An optional value (a Python None, an SQL NULL, an empty fetchone) is the
\* empty tuple, a present value v is <<v>>.
None == <<>>

Some(v) == <<v>>

\* float(text) for plain decimal text: optional sign, digits, optional point
\* and at most three fractional digits; None when float() raises ValueError.
\* The value is in thousandths.
FloatOf(text) ==
    LET t    == Strip(text)
        neg  == t /= <<>> /\ Head(t) = "-"
        body == IF t /= <<>> /\ Head(t) \in {"-", "+"} THEN Tail(t) ELSE t
        dot  == DotAt(body)
        ip   == IF dot = 0 THEN body ELSE SubSeq(body, 1, dot - 1)
        fp   == IF dot = 0 THEN <<>> ELSE SubSeq(body, dot + 1, Len(body))
    IN  IF AllDigits(ip) /\ AllDigits(fp) /\ Len(ip) + Len(fp) > 0 /\ Len(fp) <= 3
        THEN Some((IF neg THEN -1 ELSE 1)
                  * (DigitsVal(ip) * 1000 + DigitsVal(fp) * FracScale(Len(fp))))
        ELSE None

\* int(text) as handle_add_expense uses it: None when int() raises ValueError.
IntOf(text) ==
    LET t == Strip(text)
    IN  IF t /= <<>> /\ AllDigits(t) THEN Some(DigitsVal(t)) ELSE None

\* parse_float: the number, or the ValueError it raises.
parse_float(value) ==
    LET number == FloatOf(value)
    IN  IF number = None THEN [ok |-> FALSE, value |-> 0, err |-> "invalid_number"]
        ELSE IF number[1] < 0 THEN [ok |-> FALSE, value |-> 0, err |-> "negative"]
        ELSE [ok |-> TRUE, value |-> number[1], err |-> ""]

RECURSIVE DigitsOf(_)
DigitsOf(n) == IF n < 10 THEN <<Digits[n + 1]>> ELSE DigitsOf(n \div 10) \o <<Digits[(n % 10) + 1]>>

\* Hundredths nearest to m thousandths; a tie (exactly representable in
\* binary, such as 0.125) goes to the even hundredth, as "%.2f" does.
Cents(m) ==
    LET q == m \div 10
        r == m % 10
    IN  IF r > 5 \/ (r = 5 /\ q % 2 = 1) THEN q + 1 ELSE q

\* f"{x:.2f}" for x >= 0.
Format2f(m) ==
    LET c == Cents(m)
    IN  DigitsOf(c \div 100) \o <<".">> \o <<Digits[((c % 100) \div 10) + 1], Digits[(c % 10) + 1]>>

\* ----------------------------------------------------------------- store
\* init_db: both tables empty.
EmptyDb == [projects |-> <<>>, expenses |-> <<>>]

RECURSIVE MaxId(_)
MaxId(rows) ==
    IF rows = <<>> THEN 0
    ELSE LET m == MaxId(Tail(rows)) IN IF Head(rows).id > m THEN Head(rows).id ELSE m

\* INTEGER PRIMARY KEY AUTOINCREMENT; rows are never deleted.
NextId(rows) == MaxId(rows) + 1

\* SELECT id FROM projects WHERE name = ?  (fetchone): the row or None.
SelectProjectByName(d, name) ==
    IF \E i \in 1..Len(d.projects) : d.projects[i].name = name
    THEN Some(d.projects[CHOOSE i \in 1..Len(d.projects) : d.projects[i].name = name])
    ELSE None

\* SELECT id FROM projects WHERE id = ?  (fetchone).
SelectProjectById(d, project_id) ==
    IF \E i \in 1..Len(d.projects) : d.projects[i].id = project_id
    THEN Some(d.projects[CHOOSE i \in 1..Len(d.projects) : d.projects[i].id = project_id])
    ELSE None

\* InsertProject with the UNIQUE constraint on name left out of the schema.
InsertProject_nounique(d, name, budget, created_at) ==
    [ok |-> TRUE,
     db |-> [d EXCEPT !.projects = Append(@, [id |-> NextId(d.projects), name |-> name,
                                             planned_budget |-> budget,
                                             created_at |-> created_at])]]

\* INSERT INTO projects(name, planned_budget, created_at): name is UNIQUE, a
\* second row of the same name raises sqlite3.IntegrityError (ok = FALSE).
InsertProject(d, name, budget, created_at) ==
    IF SelectProjectByName(d, name) /= None
    THEN [ok |-> FALSE, db |-> d]
    ELSE [ok |-> TRUE,
          db |-> [d EXCEPT !.projects = Append(@, [id |-> NextId(d.projects), name |-> name,
                                                  planned_budget |-> budget,
                                                  created_at |-> created_at])]]

\* INSERT INTO expenses(project_id, amount, description, expense_date).
\* The FOREIGN KEY is declared but SQLite does not enforce it unless
\* PRAGMA foreign_keys is set, which get_conn does not do.
InsertExpense(d, project_id, amount, description, expense_date) ==
    [d EXCEPT !.expenses = Append(@, [id |-> NextId(d.expenses), project_id |-> project_id,
                                     amount |-> amount, description |-> description,
                                     expense_date |-> expense_date])]

\* --------------------------------------------------------------- queries
\* projects p LEFT JOIN expenses e ON e.project_id = p.id, for one p: the
\* e.amount column of the joined rows (one NULL row when nothing matches).
RECURSIVE MatchingAmounts(_, _)
MatchingAmounts(es, pid) ==
    IF es = <<>> THEN <<>>
    ELSE (IF Head(es).project_id = pid THEN <<Some(Head(es).amount)>> ELSE <<>>)
         \o MatchingAmounts(Tail(es), pid)

LeftJoinAmounts(d, p) ==
    LET m == MatchingAmounts(d.expenses, p.id) IN IF m = <<>> THEN <<None>> ELSE m

\* SUM(): NULLs are skipped; NULL when no non-NULL value was seen.
RECURSIVE SqlSum(_)
SqlSum(xs) ==
    IF xs = <<>> THEN None
    ELSE LET rest == SqlSum(Tail(xs))
         IN  IF Head(xs) = None THEN rest
             ELSE IF rest = None THEN Head(xs) ELSE Some(Head(xs)[1] + rest[1])

\* COALESCE(x, y).
Coalesce(x, y) == IF x = None THEN y ELSE x

\* a - b in SQL: NULL when an operand is NULL.
SqlMinus(a, b) == IF a = None \/ b = None THEN None ELSE Some(a[1] - b[1])

\* AggregateRow with SUM(e.amount) used bare, without COALESCE(..., 0).
AggregateRow_nocoalesce(d, p) ==
    [id |-> p.id, name |-> p.name, planned_budget |-> p.planned_budget,
     created_at |-> p.created_at,
     spent |-> SqlSum(LeftJoinAmounts(d, p)),
     remaining |-> SqlMinus(Some(p.planned_budget), SqlSum(LeftJoinAmounts(d, p)))]

\* The SELECT list of query_projects / query_project for the group of p;
\* spent and remaining are optional values (None is an SQL NULL).
AggregateRow(d, p) ==
    [id |-> p.id, name |-> p.name, planned_budget |-> p.planned_budget,
     created_at |-> p.created_at,
     spent |-> Coalesce(SqlSum(LeftJoinAmounts(d, p)), Some(0)),
     remaining |-> SqlMinus(Some(p.planned_budget),
                            Coalesce(SqlSum(LeftJoinAmounts(d, p)), Some(0)))]

\* query_project(project_id): the aggregate row, or None.
query_project(d, project_id) ==
    IF SelectProjectById(d, project_id) = None THEN None
    ELSE Some(AggregateRow(d, SelectProjectById(d, project_id)[1]))

\* query_projects(): the aggregate rows (the ORDER BY is not modelled, the
\* result is taken as a set).
query_projects(d) == {AggregateRow(d, d.projects[i]) : i \in 1..Len(d.projects)}

\* ------------------------------------------------------ row interchange
\* The local variables import_rows computes from one row (lines 147-155),
\* with what parse_float makes of the two numeric texts: budget is read only
\* when budget_text is not empty (line 158), amount only when expense_amount
\* is not (line 168).
RowFields(row) ==
    [name                |-> Strip(OrDefault(row.Project, <<>>)),
     budget_text         |-> Strip(OrDefault(row.Budget, <<>>)),
     created_at          |-> Strip(OrDefault(row.CreatedAt, Today)),
     expense_amount      |-> Strip(OrDefault(row.ExpenseAmount, <<>>)),
     expense_description |-> Strip(OrDefault(row.ExpenseDescription, <<>>)),
     expense_date        |-> Strip(OrDefault(row.ExpenseDate, Today)),
     budget              |-> parse_float(Strip(OrDefault(row.Budget, <<>>))),
     amount              |-> parse_float(Strip(OrDefault(row.ExpenseAmount, <<>>)))]

\* BudgetPart without the "if not cur" test: every budget row inserts.
BudgetPart_noexists(view, f) ==
    IF f.budget_text = <<>> THEN [k |-> "skip", budget |-> 0, err |-> ""]
    ELSE IF ~f.budget.ok THEN [k |-> "raise", budget |-> 0, err |-> f.budget.err]
    ELSE [k |-> "insert", budget |-> f.budget.value, err |-> ""]

\* Lines 157-160 on the connection's view of the database: what the budget
\* part of a row decides before it writes.
BudgetPart(view, f) ==
    IF f.budget_text = <<>> THEN [k |-> "skip", budget |-> 0, err |-> ""]
    ELSE LET b == f.budget
         IN  IF ~b.ok THEN [k |-> "raise", budget |-> 0, err |-> b.err]
             ELSE IF SelectProjectByName(view, f.name) /= None
                  THEN [k |-> "exists", budget |-> b.value, err |-> ""]
                  ELSE [k |-> "insert", budget |-> b.value, err |-> ""]

\* ExpensePart without the "if not project: continue" test: an expense of an
\* unknown project is stored with project id 0.
ExpensePart_noskip(view, f) ==
    IF f.expense_amount = <<>> THEN [k |-> "skip", db |-> view, err |-> ""]
    ELSE LET project == SelectProjectByName(view, f.name)
         IN  IF ~f.amount.ok THEN [k |-> "raise", db |-> view, err |-> f.amount.err]
             ELSE [k |-> "insert",
                   db |-> InsertExpense(view, IF project = None THEN 0 ELSE project[1].id,
                                        f.amount.value,
                                        OrDefault(f.expense_description, ImportedExpense),
                                        f.expense_date),
                   err |-> ""]

\* Lines 167-176 on the connection's view: raise, skip the expense, or the
\* view with the expense inserted.
ExpensePart(view, f) ==
    IF f.expense_amount = <<>> THEN [k |-> "skip", db |-> view, err |-> ""]
    ELSE LET a == f.amount
             project == SelectProjectByName(view, f.name)
         IN  IF ~a.ok THEN [k |-> "raise", db |-> view, err |-> a.err]
             ELSE IF project = None THEN [k |-> "continue", db |-> view, err |-> ""]
             ELSE [k |-> "insert",
                   db |-> InsertExpense(view, project[1].id, a.value,
                                        OrDefault(f.expense_description, ImportedExpense),
                                        f.expense_date),
                   err |-> ""]

\* The loop of import_rows over rows, run with no other connection writing:
\* r carries the view and the two counters.
RECURSIVE ImportLoop(_, _)
ImportLoop(rows, r) ==
    IF rows = <<>> \/ r.raised THEN r
    ELSE LET f  == Head(rows)
             bp == BudgetPart(r.db, f)
             d1 == IF bp.k = "insert"
                   THEN InsertProject(r.db, f.name, bp.budget, f.created_at).db ELSE r.db
             pa == IF bp.k = "insert" THEN r.projects_added + 1 ELSE r.projects_added
             ep == ExpensePart(d1, f)
             ea == IF ep.k = "insert" THEN r.expenses_added + 1 ELSE r.expenses_added
         IN  IF f.name = <<>> THEN ImportLoop(Tail(rows), r)
             ELSE IF bp.k = "raise" \/ ep.k = "raise"
                  THEN [r EXCEPT !.raised = TRUE]
                  ELSE ImportLoop(Tail(rows),
                                  [raised |-> FALSE, db |-> ep.db,
                                   projects_added |-> pa, expenses_added |-> ea])

\* The locals of every row of a payload.
RowsFields(rows) == [i \in 1..Len(rows) |-> RowFields(rows[i])]

\* import_rows(rows) on database d: the "with conn" block commits when the
\* loop ends and rolls back when it is left by an exception.
import_rows(d, rows) ==
    LET r == ImportLoop(RowsFields(rows), [raised |-> FALSE, db |-> d,
                               projects_added |-> 0, expenses_added |-> 0])
    IN  IF r.raised
        THEN [raised |-> TRUE, db |-> d, projects_added |-> 0, expenses_added |-> 0]
        ELSE r

\* The rows export_rows emits for the expenses of project p, by id.
RECURSIVE ExpenseRows(_, _, _)
ExpenseRows(es, p, pid) ==
    IF es = <<>> THEN <<>>
    ELSE (IF Some(Head(es).project_id) = pid
          THEN <<[Project |-> p.name, Budget |-> <<>>, CreatedAt |-> <<>>,
                  ExpenseAmount |-> Format2f(Head(es).amount),
                  ExpenseDescription |-> Head(es).description,
                  ExpenseDate |-> Head(es).expense_date]>>
          ELSE <<>>)
         \o ExpenseRows(Tail(es), p, pid)

RECURSIVE ExportFrom(_, _)
ExportFrom(d, ps) ==
    IF ps = <<>> THEN <<>>
    ELSE LET p   == Head(ps)
             sub == SelectProjectByName(d, p.name)
         IN  <<[Project |-> p.name, Budget |-> Format2f(p.planned_budget),
                CreatedAt |-> p.created_at, ExpenseAmount |-> <<>>,
                ExpenseDescription |-> <<>>, ExpenseDate |-> <<>>]>>
             \o ExpenseRows(d.expenses, p, IF sub = None THEN None ELSE Some(sub[1].id))
             \o ExportFrom(d, Tail(ps))

\* export_rows(): projects by id, each followed by its expenses by id (both
\* tables are kept in id order).
export_rows(d) == ExportFrom(d, d.projects)

\* ---------------------------------------------------------------- inputs
\* Form bodies and CSV payloads the requests are drawn from.  _body_form
\* drops blank values, so an absent field and an empty one are both <<>>.
D1 == <<"d", "1">>

ProjectForms ==
    {[name |-> <<"A">>, planned_budget |-> <<"1", "0">>, created_at |-> D1],
     [name |-> <<" ", "A">>, planned_budget |-> <<"2", ".", "5">>, created_at |-> <<>>],
     [name |-> <<"B">>, planned_budget |-> <<"1", ".", "1", "2", "5">>, created_at |-> <<" ">>],
     [name |-> <<" ">>, planned_budget |-> <<"1">>, created_at |-> <<>>],
     [name |-> <<"B">>, planned_budget |-> <<"-", "5">>, created_at |-> <<>>],
     [name |-> <<"B">>, planned_budget |-> <<"x">>, created_at |-> <<>>]}

ExpenseForms ==
    {[project_id |-> <<"1">>, amount |-> <<"4">>, description |-> <<"x">>, expense_date |-> D1],
     [project_id |-> <<"2">>, amount |-> <<"0", ".", "1", "2", "5">>, description |-> <<"x">>,
      expense_date |-> <<" ">>],
     [project_id |-> <<"9">>, amount |-> <<"1">>, description |-> <<"x">>, expense_date |-> <<>>],
     [project_id |-> <<"x">>, amount |-> <<"1">>, description |-> <<"x">>, expense_date |-> <<>>],
     [project_id |-> <<"1">>, amount |-> <<"-", "1">>, description |-> <<"x">>, expense_date |-> <<>>],
     [project_id |-> <<"1">>, amount |-> <<"1">>, description |-> <<" ">>, expense_date |-> <<>>]}

Row(p, b, c, ea, ed, edate) ==
    [Project |-> p, Budget |-> b, CreatedAt |-> c, ExpenseAmount |-> ea,
     ExpenseDescription |-> ed, ExpenseDate |-> edate]

Batches ==
    {<<Row(<<"A">>, <<"1", "0">>, D1, <<>>, <<>>, <<>>),
       Row(<<"A">>, <<>>, <<>>, <<"1", ".", "5">>, <<>>, <<>>)>>,
     <<Row(<<"B">>, <<>>, <<>>, <<"3">>, <<"x">>, D1),
       Row(<<"B", " ">>, <<"7">>, <<>>, <<"2">>, <<"x">>, D1),
       Row(<<" ">>, <<"-", "5">>, <<>>, <<>>, <<>>, <<>>)>>,
     <<Row(<<"B">>, <<"7">>, <<>>, <<>>, <<>>, <<>>),
       Row(<<"A">>, <<"-", "5">>, <<>>, <<>>, <<>>, <<>>)>>,
     <<Row(<<"A">>, <<"3">>, <<>>, <<"x">>, <<>>, <<>>)>>}

ImportForms == {[csv_url |-> <<"u">>], [csv_url |-> <<" ">>]}

ExportForms == {[apps_script_url |-> <<"u">>], [apps_script_url |-> <<>>]}

\* What urllib.request.urlopen(csv_url, timeout=20) and response.read() can
\* do: return the payload, or raise.  HTTPError (a non-2xx answer) is a
\* subclass of URLError; a timeout while the response is awaited or read is a
\* TimeoutError (an OSError), which is neither a URLError nor a ValueError.
FetchOutcomes ==
    {[exc |-> "none", rows |-> RowsFields(b)] : b \in Batches}
    \cup {[exc |-> e, rows |-> <<>>] : e \in {"URLError", "HTTPError", "TimeoutError"}}

PostOutcomes ==
    {[exc |-> "none", code |-> c] : c \in {200, 300}}
    \cup {[exc |-> e, code |-> 0] : e \in {"URLError", "HTTPError", "TimeoutError"}}

\* except urllib.error.URLError
IsURLError(exc) == exc \in {"URLError", "HTTPError"}

\* except ValueError (do_POST)
IsValueError(exc) == exc = "ValueError"

\* ----------------------------------------------------------------- state
\* No import request in flight.
IdleImp ==
    [pc |-> "idle", rows |-> <<>>, i |-> 0, projects_added |-> 0, expenses_added |-> 0,
     in_tx |-> FALSE, view |-> EmptyDb, budget |-> 0]

NoResp == [op |-> "none", status |-> "none", msg |-> "", projects |-> 0, expenses |-> 0]

\* run(): init_db on a new database file, no request served yet.
Init ==
    /\ db = EmptyDb
    /\ imp = IdleImp
    /\ resp = NoResp

\* What the import's connection reads: its own uncommitted writes once its
\* transaction is open, the committed database before.
View == IF imp.in_tx THEN imp.view ELSE db

\* do_POST: a handler that returns has sent its redirect; a ValueError becomes
\* the redirect to /?status=err; any other exception leaves do_POST.
do_POST(op, exc, msg, projects, expenses) ==
    [op |-> op,
     status |-> IF exc = "none" THEN "redirect_ok"
                ELSE IF IsValueError(exc) THEN "redirect_err" ELSE "unhandled",
     msg |-> msg, projects |-> projects, expenses |-> expenses]

\* --------------------------------------------------------- form handlers
\* The locals handle_add_project computes from the form (lines 354-359).
ProjectLocals(form) ==
    [name       |-> Strip(OrDefault(form.name, <<>>)),
     budget     |-> parse_float(Strip(OrDefault(form.planned_budget, <<>>))),
     created_at |-> Strip(OrDefault(form.created_at, Today))]

ProjectRequests == {ProjectLocals(form) : form \in ProjectForms}

\* handle_add_project on database d: the exception raised and the database
\* after it.  at_insert says the INSERT statement was reached.
AddProject(d, req) ==
    LET name       == req.name
        budget     == req.budget
        created_at == req.created_at
        ins        == InsertProject(d, name, budget.value, created_at)
    IN  IF name = <<>>
        THEN [exc |-> "ValueError", msg |-> "name_required", db |-> d, at_insert |-> FALSE]
        ELSE IF ~budget.ok
        THEN [exc |-> "ValueError", msg |-> budget.err, db |-> d, at_insert |-> FALSE]
        ELSE IF ~ins.ok
        THEN [exc |-> "ValueError", msg |-> "duplicate_name", db |-> d, at_insert |-> TRUE]
        ELSE [exc |-> "none", msg |-> "project_added", db |-> ins.db, at_insert |-> TRUE]

\* POST /projects with the form locals req.  The INSERT waits for the write
\* lock while the import's transaction is open (the import works on a
\* payload it has read whole, so the wait is taken to end before sqlite3's
\* busy timeout).
AddProjectStep(req) ==
    LET r == AddProject(db, req)
    IN  /\ r.at_insert => ~imp.in_tx
        /\ db' = r.db
        /\ resp' = do_POST("add_project", r.exc, r.msg, 0, 0)
        /\ UNCHANGED imp

handle_add_project == \E req \in ProjectRequests : AddProjectStep(req)

\* The locals handle_add_expense computes from the form (lines 373-377).
ExpenseLocals(form) ==
    [project_id   |-> IntOf(OrDefault(form.project_id, <<"0">>)),
     amount       |-> parse_float(Strip(OrDefault(form.amount, <<>>))),
     description  |-> Strip(OrDefault(form.description, <<>>)),
     expense_date |-> Strip(OrDefault(form.expense_date, Today))]

ExpenseRequests == {ExpenseLocals(form) : form \in ExpenseForms}

\* AddExpense without the SELECT that looks the project up.
AddExpense_nocheck(d, req) ==
    IF req.project_id = None
    THEN [exc |-> "ValueError", msg |-> "invalid_int", db |-> d, at_insert |-> FALSE]
    ELSE IF ~req.amount.ok
    THEN [exc |-> "ValueError", msg |-> req.amount.err, db |-> d, at_insert |-> FALSE]
    ELSE IF req.description = <<>>
    THEN [exc |-> "ValueError", msg |-> "description_required", db |-> d, at_insert |-> FALSE]
    ELSE [exc |-> "none", msg |-> "expense_added",
          db |-> InsertExpense(d, req.project_id[1], req.amount.value, req.description,
                               req.expense_date),
          at_insert |-> TRUE]

\* handle_add_expense on database d: the checks in the order of the code.
AddExpense(d, req) ==
    LET project_id   == req.project_id
        amount       == req.amount
        description  == req.description
        expense_date == req.expense_date
    IN  IF project_id = None
        THEN [exc |-> "ValueError", msg |-> "invalid_int", db |-> d, at_insert |-> FALSE]
        ELSE IF ~amount.ok
        THEN [exc |-> "ValueError", msg |-> amount.err, db |-> d, at_insert |-> FALSE]
        ELSE IF description = <<>>
        THEN [exc |-> "ValueError", msg |-> "description_required", db |-> d,
              at_insert |-> FALSE]
        ELSE IF SelectProjectById(d, project_id[1]) = None
        THEN [exc |-> "ValueError", msg |-> "project_not_found", db |-> d, at_insert |-> FALSE]
        ELSE [exc |-> "none", msg |-> "expense_added",
              db |-> InsertExpense(d, project_id[1], amount.value, description, expense_date),
              at_insert |-> TRUE]

\* POST /expenses with the form locals req.
AddExpenseStep(req) ==
    LET r == AddExpense(db, req)
    IN  /\ r.at_insert => (~imp.in_tx /\ Len(db.expenses) < MaxExpenses)
        /\ db' = r.db
        /\ resp' = do_POST("add_expense", r.exc, r.msg, 0, 0)
        /\ UNCHANGED imp

handle_add_expense == \E req \in ExpenseRequests : AddExpenseStep(req)

\* ------------------------------------------------------- Google handlers
\* POST /import-google up to the call of import_rows.
handle_import_google ==
    \E form \in ImportForms :
        LET csv_url == Strip(OrDefault(form.csv_url, <<>>))
        IN  /\ imp.pc = "idle"
            /\ UNCHANGED db
            /\ IF csv_url = <<>>
               THEN /\ resp' = do_POST("import_google", "ValueError", "csv_url_required", 0, 0)
                    /\ UNCHANGED imp
               ELSE \E out \in FetchOutcomes :
                       IF out.exc /= "none"
                       THEN /\ resp' = do_POST("import_google",
                                               IF IsURLError(out.exc) THEN "ValueError"
                                               ELSE out.exc,
                                               "download_failed", 0, 0)
                            /\ UNCHANGED imp
                       ELSE /\ imp' = [IdleImp EXCEPT !.pc = "row", !.rows = out.rows,
                                                      !.i = 1]
                            /\ UNCHANGED resp

\* ImportRaise with the rows written so far committed instead of rolled back.
ImportRaise_commits(exc, msg) ==
    /\ imp' = IdleImp
    /\ resp' = do_POST("import_google", exc, msg, 0, 0)
    /\ db' = View

\* import_rows leaves by an exception: "with conn" rolls the transaction
\* back and the exception reaches do_POST.
ImportRaise(exc, msg) ==
    /\ imp' = IdleImp
    /\ resp' = do_POST("import_google", exc, msg, 0, 0)
    /\ UNCHANGED db

\* One row of import_rows from the top of the loop to the SELECT of the
\* budget part (lines 146-160).
ImportSelect ==
    /\ imp.pc = "row"
    /\ imp.i <= Len(imp.rows)
    /\ LET f  == imp.rows[imp.i]
           bp == BudgetPart(View, f)
       IN  IF f.name = <<>>
           THEN /\ imp' = [imp EXCEPT !.i = @ + 1]
                /\ UNCHANGED <<db, resp>>
           ELSE IF bp.k = "raise"
           THEN ImportRaise("ValueError", bp.err)
           ELSE /\ imp' = [imp EXCEPT !.pc = IF bp.k = "insert" THEN "insert_project"
                                             ELSE "expense",
                                      !.budget = IF bp.k = "insert" THEN bp.budget ELSE 0]
                /\ UNCHANGED <<db, resp>>

\* The INSERT of the budget part (lines 161-165).  The first write of the
\* connection opens its transaction on the database as committed by then.
ImportInsertProject ==
    /\ imp.pc = "insert_project"
    /\ LET f   == imp.rows[imp.i]
           ins == InsertProject(View, f.name, imp.budget, f.created_at)
       IN  IF ~ins.ok
           THEN ImportRaise("IntegrityError", "unique_name")
           ELSE /\ imp' = [imp EXCEPT !.pc = "expense", !.in_tx = TRUE, !.view = ins.db,
                                      !.budget = 0, !.projects_added = @ + 1]
                /\ UNCHANGED <<db, resp>>

\* ImportExpense with expenses_added counted before the project is looked up.
ImportExpense_countsSkipped ==
    /\ imp.pc = "expense"
    /\ LET f  == imp.rows[imp.i]
           ep == ExpensePart(View, f)
       IN  /\ ep.k = "insert" => Len(View.expenses) < MaxExpenses
           /\ IF ep.k = "raise"
              THEN ImportRaise("ValueError", ep.err)
              ELSE /\ imp' = [imp EXCEPT !.pc = "row", !.i = @ + 1,
                                         !.in_tx = @ \/ ep.k = "insert",
                                         !.view = IF ep.k = "insert" THEN ep.db ELSE @,
                                         !.expenses_added =
                                             IF ep.k \in {"insert", "continue"}
                                             THEN @ + 1 ELSE @]
                   /\ UNCHANGED <<db, resp>>

\* The expense part of the row (lines 167-176).
ImportExpense ==
    /\ imp.pc = "expense"
    /\ LET f  == imp.rows[imp.i]
           ep == ExpensePart(View, f)
       IN  /\ ep.k = "insert" => Len(View.expenses) < MaxExpenses
           /\ IF ep.k = "raise"
              THEN ImportRaise("ValueError", ep.err)
              ELSE /\ imp' = [imp EXCEPT !.pc = "row", !.i = @ + 1,
                                         !.in_tx = @ \/ ep.k = "insert",
                                         !.view = IF ep.k = "insert" THEN ep.db ELSE @,
                                         !.expenses_added =
                                             IF ep.k = "insert" THEN @ + 1 ELSE @]
                   /\ UNCHANGED <<db, resp>>

\* The loop is over: "with conn" commits, import_rows returns its counters
\* and handle_import_google redirects with them.
ImportReturn ==
    /\ imp.pc = "row"
    /\ imp.i > Len(imp.rows)
    /\ db' = View
    /\ resp' = do_POST("import_google", "none", "import_done",
                       imp.projects_added, imp.expenses_added)
    /\ imp' = IdleImp

\* POST /export-google.
handle_export_google ==
    \E form \in ExportForms :
        LET url  == Strip(OrDefault(form.apps_script_url, <<>>))
            body == export_rows(db)
        IN  /\ UNCHANGED <<db, imp>>
            /\ IF url = <<>>
               THEN resp' = do_POST("export_google", "ValueError", "url_required", 0, 0)
               ELSE \E out \in PostOutcomes :
                       IF out.exc /= "none"
                       THEN resp' = do_POST("export_google",
                                            IF IsURLError(out.exc) THEN "ValueError"
                                            ELSE out.exc,
                                            "export_failed", 0, 0)
                       ELSE IF out.code < 200 \/ out.code >= 300
                       THEN resp' = do_POST("export_google", "ValueError", "bad_status", 0, 0)
                       ELSE resp' = do_POST("export_google", "none", "export_done", 0, 0)

Next ==
    \/ handle_add_project
    \/ handle_add_expense
    \/ handle_import_google
    \/ ImportSelect
    \/ ImportInsertProject
    \/ ImportExpense
    \/ ImportReturn
    \/ handle_export_google

Spec == Init /\ [][Next]_vars

\* ================================================================ claims
\* The row the import is at, when it is inside the loop.
AtRow == imp.pc /= "idle" /\ imp.i <= Len(imp.rows)

CurRow == imp.rows[imp.i]

\* The import request ends in this step by the amount error of parse_float.
RaisesAmountError ==
    /\ imp.pc /= "idle"
    /\ imp' = IdleImp
    /\ resp'.op = "import_google"
    /\ resp'.status = "redirect_err"
    /\ resp'.msg \in {"negative", "invalid_number"}

\* ------------------------------------------------------------------- C1
\* C1: when a project named n exists, a POST /projects with name n and a valid
\* budget is answered by the duplicate-name error redirect and leaves the
\* database as it was: no project is added and the first project keeps its
\* id, planned_budget and created_at.
C1_DuplicateNameRejected ==
    [][\A req \in ProjectRequests :
          (/\ req.name /= <<>>
           /\ req.budget.ok
           /\ SelectProjectByName(db, req.name) /= None
           /\ AddProjectStep(req))
          => (/\ resp'.status = "redirect_err"
              /\ resp'.msg = "duplicate_name"
              /\ db' = db)]_vars

\* A duplicate was rejected while the first project holds another budget than
\* the rejected form could have given it.
C1_Witness ==
    /\ resp.op = "add_project"
    /\ resp.msg = "duplicate_name"
    /\ \E i \in 1..Len(db.projects) :
          /\ db.projects[i].name = <<"A">>
          /\ db.projects[i].planned_budget = 2500

\* ------------------------------------------------------------------- C2
\* The indices of the expenses of project pid.
ExpensesOf(d, pid) == {j \in 1..Len(d.expenses) : d.expenses[j].project_id = pid}

RECURSIVE SumAmounts(_, _)
SumAmounts(d, S) ==
    IF S = {} THEN 0
    ELSE LET j == CHOOSE x \in S : TRUE IN d.expenses[j].amount + SumAmounts(d, S \ {j})

AggregatesExact(d) ==
    \A i \in 1..Len(d.projects) :
        LET p   == d.projects[i]
            row == query_project(d, p.id)
        IN  /\ row /= None
            /\ row[1].spent = Some(SumAmounts(d, ExpensesOf(d, p.id)))
            /\ row[1].remaining = Some(p.planned_budget - SumAmounts(d, ExpensesOf(d, p.id)))
            /\ row[1] \in query_projects(d)

\* C2: for every project the reported spent is the sum of the amounts of
\* exactly its expenses (0, not NULL, when it has none) and remaining is
\* planned_budget - spent; and a valid POST /expenses for an existing project
\* is stored whatever remaining becomes.
C2_SpentAndRemaining ==
    /\ []AggregatesExact(db)
    /\ [][\A req \in ExpenseRequests :
             (/\ req.project_id /= None
              /\ req.amount.ok
              /\ req.description /= <<>>
              /\ SelectProjectById(db, req.project_id[1]) /= None
              /\ AddExpenseStep(req))
             => (/\ resp'.status = "redirect_ok"
                 /\ Len(db'.expenses) = Len(db.expenses) + 1
                 /\ db'.expenses[Len(db'.expenses)].amount = req.amount.value)]_vars

\* A project overspent by two expenses next to a project without any.
C2_Witness ==
    \E i, k \in 1..Len(db.projects) :
        /\ Cardinality(ExpensesOf(db, db.projects[i].id)) >= 2
        /\ query_project(db, db.projects[i].id)[1].remaining[1] < 0
        /\ ExpensesOf(db, db.projects[k].id) = {}
        /\ query_project(db, db.projects[k].id)[1].spent = Some(0)

\* ------------------------------------------------------------------- C3
\* x rounded to two decimals, in thousandths.
Round2(x) == Cents(x) * 10

RECURSIVE ExpenseTriples(_, _, _)
ExpenseTriples(es, pid, rounded) ==
    IF es = <<>> THEN <<>>
    ELSE (IF Head(es).project_id = pid
          THEN <<[amount |-> IF rounded THEN Round2(Head(es).amount) ELSE Head(es).amount,
                  description |-> Head(es).description,
                  expense_date |-> Head(es).expense_date]>>
          ELSE <<>>)
         \o ExpenseTriples(Tail(es), pid, rounded)

\* e reproduces d up to 2-decimal rounding: the same projects (name,
\* planned_budget, created_at) and per project the same sequence of expenses
\* (amount, description, expense_date).
SameLedger(d, e) ==
    /\ Len(e.projects) = Len(d.projects)
    /\ \A i \in 1..Len(d.projects) :
          /\ \E k \in 1..Len(e.projects) :
                /\ e.projects[k].name = d.projects[i].name
                /\ e.projects[k].planned_budget = Round2(d.projects[i].planned_budget)
                /\ e.projects[k].created_at = d.projects[i].created_at
                /\ ExpenseTriples(e.expenses, e.projects[k].id, FALSE)
                   = ExpenseTriples(d.expenses, d.projects[i].id, TRUE)
    /\ Len(e.expenses) = Len(d.expenses)

\* C3: export_rows followed by import_rows of its rows into an empty store
\* reproduces the projects and, per project, the expenses of the store.
C3_RoundTrip ==
    LET r == import_rows(EmptyDb, export_rows(db))
    IN  ~r.raised /\ SameLedger(db, r.db)

\* ------------------------------------------------------------------- C4
\* The import is about to read a Budget, or an ExpenseAmount, that
\* parse_float rejects.
AtBadBudget ==
    /\ imp.pc = "row" /\ AtRow
    /\ CurRow.name /= <<>>
    /\ CurRow.budget_text /= <<>> /\ ~CurRow.budget.ok

AtBadAmount ==
    /\ imp.pc = "expense"
    /\ CurRow.expense_amount /= <<>> /\ ~CurRow.amount.ok

C5_ExpenseIffProjectKnown ==
    [][(/\ imp.pc = "expense"
        /\ CurRow.expense_amount /= <<>> /\ CurRow.amount.ok
        /\ imp' /= imp)
       => LET project == SelectProjectByName(View, CurRow.name)
          IN  /\ imp'.pc = "row" /\ imp'.i = imp.i + 1
              /\ resp' = resp
              /\ View'.projects = View.projects
              /\ IF project /= None
                 THEN /\ Len(View'.expenses) = Len(View.expenses) + 1
                      /\ SubSeq(View'.expenses, 1, Len(View.expenses)) = View.expenses
                      /\ View'.expenses[Len(View'.expenses)].project_id = project[1].id
                      /\ View'.expenses[Len(View'.expenses)].amount = CurRow.amount.value
                      /\ imp'.expenses_added = imp.expenses_added + 1
                 ELSE /\ View'.expenses = View.expenses
                      /\ imp'.expenses_added = imp.expenses_added]_vars

\* An import returned after it skipped the expense of a project that a later
\* row of the same batch declared.
C5_Witness ==
    /\ resp.op = "import_google"
    /\ resp.status = "redirect_ok"
    /\ resp.projects = 1
    /\ resp.expenses = 1
    /\ db.projects = <<[id |-> 1, name |-> <<"B">>, planned_budget |-> 7000,
                        created_at |-> Today]>>
    /\ Len(db.expenses) = 1
    /\ db.expenses[1].amount = 2000

\* ------------------------------------------------------------------- C6
\* C6: a row with a valid Budget whose project exists goes on to its expense
\* part with no project added, no project changed and projects_added as it
\* was.
C6_ExistingProjectUntouched ==
    [][(/\ imp.pc = "row" /\ AtRow
        /\ CurRow.name /= <<>>
        /\ CurRow.budget_text /= <<>> /\ CurRow.budget.ok
        /\ SelectProjectByName(View, CurRow.name) /= None
        /\ imp' /= imp)
       => (/\ imp'.pc = "expense" /\ imp'.i = imp.i
           /\ imp'.projects_added = imp.projects_added
           /\ View' = View
           /\ resp' = resp)]_vars

\* The import passed a budget row of a project that exists with another
\* budget.
C6_Witness ==
    /\ imp.pc = "expense"
    /\ CurRow.budget_text /= <<>> /\ CurRow.budget.ok
    /\ imp.projects_added = 0
    /\ SelectProjectByName(View, CurRow.name) /= None
    /\ SelectProjectByName(View, CurRow.name)[1].planned_budget /= CurRow.budget.value

\* ------------------------------------------------------------------- C7
\* C7: when import_rows returns, the counts it returns are the numbers of
\* projects and of expenses its commit adds to the database.
C7_CountsAreRowsCreated ==
    [][(imp.pc = "row" /\ imp.i > Len(imp.rows) /\ imp' = IdleImp)
       => (/\ resp'.status = "redirect_ok"
           /\ Len(db'.projects) >= Len(db.projects)
           /\ SubSeq(db'.projects, 1, Len(db.projects)) = db.projects
           /\ Len(db'.expenses) >= Len(db.expenses)
           /\ SubSeq(db'.expenses, 1, Len(db.expenses)) = db.expenses
           /\ resp'.projects = Len(db'.projects) - Len(db.projects)
           /\ resp'.expenses = Len(db'.expenses) - Len(db.expenses))]_vars

\* An import returned 0 projects and 1 expense for a batch with a budget row
\* and an expense row of a project that existed.
C7_Witness ==
    /\ resp.op = "import_google"
    /\ resp.status = "redirect_ok"
    /\ resp.projects = 0
    /\ resp.expenses = 1
    /\ Len(db.projects) = 1
    /\ Len(db.expenses) = 2

\* ------------------------------------------------------------------- C8
NoOrphans(d) ==
    \A j \in 1..Len(d.expenses) : SelectProjectById(d, d.expenses[j].project_id) /= None

\* C8: every stored expense, committed or written in the import's open
\* transaction, has the id of a stored project as project_id.
C8_NoOrphanExpense == NoOrphans(db) /\ NoOrphans(View)

\* Expenses stored by the form and by an import, for two projects.
C8_Witness ==
    /\ Len(db.expenses) = 2
    /\ db.expenses[1].project_id /= db.expenses[2].project_id
    /\ \E j \in 1..2 : db.expenses[j].description = ImportedExpense

\* ------------------------------------------------------------------- C9
UniqueNames(d) ==
    \A i, k \in 1..Len(d.projects) : d.projects[i].name = d.projects[k].name => i = k

\* C9: of two requests creating a project of one name, one creates it; the
\* form that loses is answered by the duplicate-name error redirect, the
\* import that loses passes the row over silently, and neither ends as an
\* unhandled failure.
C9_NameRaceResolved ==
    [][/\ UniqueNames(db')
       /\ \A req \in ProjectRequests :
             (/\ req.name /= <<>> /\ req.budget.ok
              /\ SelectProjectByName(db, req.name) /= None
              /\ AddProjectStep(req))
             => (resp'.status = "redirect_err" /\ db' = db)
       /\ (/\ imp.pc = "insert_project"
           /\ SelectProjectByName(View, CurRow.name) /= None
           /\ imp' /= imp)
          => (/\ imp'.pc = "expense"
              /\ imp'.projects_added = imp.projects_added
              /\ resp'.status /= "unhandled")]_vars

\* ------------------------------------------------------------------ C10
\* C10: a failed fetch of POST /import-google or a failed post of POST
\* /export-google is answered by the error redirect and leaves the database
\* as it was.
C10_InterchangeFailsCleanly ==
    [][(/\ resp' /= resp
        /\ resp'.op \in {"import_google", "export_google"}
        /\ resp'.msg \in {"download_failed", "export_failed", "bad_status"})
       => (resp'.status = "redirect_err" /\ db' = db)]_vars

====
